---- MODULE Spec2Model ----
(***************************************************************************)
(* A model of the skip list of skip_list_rs: the packed Node (node.rs),    *)
(* the SkipList engine (lib.rs: insert, search, remove, alloc, Drop) and   *)
(* the traversal layer (iter.rs).                                          *)
(*                                                                         *)
(* Memory is a heap of cells addressed 1..TallKey; a link (MaybeNode) is   *)
(* Null or the address of a cell.  A "forwards" slice is named by its      *)
(* holder: IndexHolder for self.nodes, or the address of the node whose    *)
(* nexts() it is.  Level L of the source is position L + 1 of a sequence.  *)
(***************************************************************************)
EXTENDS Integers, Sequences, FiniteSets, TLC

\* Bounds of the model: the keys and values of Spec, and the keys of SpecTall
\* (which reaches the element counts at which nodes of level 3 appear).
MaxKey == 3
MaxVal == 2
TallKey == 5

Keys == 1..MaxKey
Vals == 1..MaxVal
TallKeys == 1..TallKey
AllKeys == Keys \cup TallKeys
Addr == AllKeys
Null == 0
IndexHolder == 0
NoneV == 0
Fuel == Cardinality(Addr) + 1

VARIABLES
    heap,       \* the allocated Node blocks: Addr -> cell
    nodes,      \* SkipList.nodes, the Index (head vector)
    count,      \* SkipList.count
    phase,      \* "live" | "dropped" | "iter" | "gone" | "panic" | "hang" | "abort"
    into_node,  \* IntoIter.node
    head_read,  \* what IntoIter::new read as the head: "none" yet | "old" | "garbage"
    dfree,      \* a block was deallocated while not allocated
    lastOp,     \* the operation just performed, its arguments and its result
    ref,        \* the reference ordered map after the last call, key -> value or
                \* NoneV: it held the structure's pairs before that call
    lastIns,    \* per key, the value of the last insert that returned Ok, NoneV
                \* once a remove has returned the key
    net         \* inserts that returned Ok minus removes that returned Ok

vars == <<heap, nodes, count, phase, into_node, head_read, dfree, lastOp, ref,
          lastIns, net>>

----------------------------------------------------------------------------
\* node.rs

FreeCell == [live |-> FALSE, key |-> 0, value |-> 0, level |-> 0, nexts |-> <<>>]

\* MaybeNode::null
MaybeNull == Null

\* Node::new: one block holding key, value, level and `level` null forward slots.
NodeNew(h, a, key, value, level) ==
    [h EXCEPT ![a] = [live |-> TRUE, key |-> key, value |-> value,
                      level |-> level, nexts |-> [i \in 1..level |-> MaybeNull]]]

\* The address std::alloc::alloc hands out: any free block will do; the policy
\* here is the block numbered like the key when it is free, else the lowest free
\* block, else Null (allocation failure).
AllocAddr(h, key) ==
    IF ~h[key].live THEN key
    ELSE IF \E a \in Addr : ~h[a].live
         THEN CHOOSE a \in Addr : ~h[a].live /\ \A b \in Addr : ~h[b].live => a <= b
         ELSE Null

\* Node::dispose: reads key and value out and deallocates the block.
Dispose(h, a) ==
    [heap |-> [h EXCEPT ![a] = FreeCell], key |-> h[a].key, value |-> h[a].value,
     dfree |-> ~h[a].live]

\* Node::level
NodeLevel(h, a) == h[a].level

\* Node::nexts / nexts_mut, and self.nodes as a slice
Forwards(h, idx, holder) == IF holder = IndexHolder THEN idx ELSE h[holder].nexts

\* forwards[level] = link
SetForward(st, holder, level, link) ==
    IF holder = IndexHolder
    THEN [st EXCEPT !.nodes[level + 1] = link]
    ELSE [st EXCEPT !.heap[holder].nexts[level + 1] = link]

----------------------------------------------------------------------------
\* lib.rs: alloc

\* usize::BITS - count.leading_zeros()
RECURSIVE BitLen(_)
BitLen(c) == IF c <= 0 THEN 0 ELSE 1 + BitLen(c \div 2)

\* The level source (generator.rs, Generator<bool>::gen) as seen by one insert:
\* g outcomes true, then false.  The loop below stops at the first false, so the
\* outcomes after it are never drawn; g = MaxTrue(n) is a source that stays true
\* for as many draws as an insert into n - 1 elements can make.
MaxTrue(n) == BitLen(n - 1) - 1
Gen(g, i) == i <= g

\* The loop with the operands of && exchanged: the source is consulted before
\* the size is compared with the limit.
RECURSIVE level_loop_DrawFirst(_, _, _, _)
level_loop_DrawFirst(size, limit, g, n) ==
    IF Gen(g, n + 1) /\ size < limit
    THEN level_loop_DrawFirst(size + 1, limit, g, n + 1)
    ELSE [size |-> size, draws |-> n + 1]

\* while size < limit && self.gen.gen() { size += 1 }; n is the number of
\* outcomes already drawn.
RECURSIVE level_loop(_, _, _, _)
level_loop(size, limit, g, n) ==
    IF size < limit
    THEN IF Gen(g, n + 1)
         THEN level_loop(size + 1, limit, g, n + 1)
         ELSE [size |-> size, draws |-> n + 1]
    ELSE [size |-> size, draws |-> n]

\* The level drawn with the cap taken from the count after its increment.
select_level_PostCount(cnt, g) == level_loop(1, BitLen(cnt + 1), g, 0)

select_level(cnt, g) == level_loop(1, BitLen(cnt), g, 0)

\* alloc as it would be with the `self.count += 1` after it left out.
alloc_NoCount(st, key, value, g) ==
    LET lv == select_level(st.count, g)
        a  == AllocAddr(st.heap, key)
    IN  IF a = Null
        THEN [st |-> st, kind |-> "abort", node |-> Null, rkey |-> key,
              rval |-> value, draws |-> lv.draws]
        ELSE [st |-> [st EXCEPT !.heap = NodeNew(st.heap, a, key, value, lv.size)],
              kind |-> "Ok", node |-> a, rkey |-> key, rval |-> value,
              draws |-> lv.draws]

\* alloc(key, value) followed by self.count += 1 (insert_impl, level == 0)
alloc(st, key, value, g) ==
    LET lv == select_level(st.count, g)
        a  == AllocAddr(st.heap, key)
    IN  IF a = Null
        THEN [st |-> st, kind |-> "abort", node |-> Null, rkey |-> key,
              rval |-> value, draws |-> lv.draws]
        ELSE [st |-> [st EXCEPT !.heap = NodeNew(st.heap, a, key, value, lv.size),
                                !.count = st.count + 1],
              kind |-> "Ok", node |-> a, rkey |-> key, rval |-> value,
              draws |-> lv.draws]

----------------------------------------------------------------------------
\* lib.rs: insert

\* The loop of insert_impl with the `next.key() == &key` return left out: an equal
\* key stops the advance like a greater one.
RECURSIVE insert_advance_NoDupCheck(_, _, _, _, _, _)
insert_advance_NoDupCheck(h, idx, forwards, level, key, fuel) ==
    IF fuel = 0 THEN [kind |-> "hang", forwards |-> forwards]
    ELSE IF ~(level < Len(Forwards(h, idx, forwards)))
    THEN [kind |-> "panic", forwards |-> forwards]
    ELSE LET next == Forwards(h, idx, forwards)[level + 1] IN
         IF next = Null THEN [kind |-> "break", forwards |-> forwards]
         ELSE IF h[next].key >= key THEN [kind |-> "break", forwards |-> forwards]
         ELSE insert_advance_NoDupCheck(h, idx, next, level, key, fuel - 1)

\* The loop of insert_impl: advance at `level` while the next key is smaller.
RECURSIVE insert_advance(_, _, _, _, _, _)
insert_advance(h, idx, forwards, level, key, fuel) ==
    IF fuel = 0 THEN [kind |-> "hang", forwards |-> forwards]
    ELSE IF ~(level < Len(Forwards(h, idx, forwards)))
    THEN [kind |-> "panic", forwards |-> forwards]
    ELSE LET next == Forwards(h, idx, forwards)[level + 1] IN
         IF next = Null THEN [kind |-> "break", forwards |-> forwards]
         ELSE IF h[next].key = key THEN [kind |-> "dup", forwards |-> forwards]
         ELSE IF h[next].key > key THEN [kind |-> "break", forwards |-> forwards]
         ELSE insert_advance(h, idx, next, level, key, fuel - 1)

\* The splice with `node.nexts_mut()[level] = forwards[level]` left out.
Splice_LosesTail(st, forwards, level, node) ==
    SetForward(st, forwards, level, node)

\* The splice with its two assignments exchanged: the node's slot is filled from
\* the predecessor's slot after that slot has been pointed at the node.
Splice_Swapped(st, forwards, level, node) ==
    LET s1 == SetForward(st, forwards, level, node)
    IN  [s1 EXCEPT !.heap[node].nexts[level + 1] =
                      Forwards(s1.heap, s1.nodes, forwards)[level + 1]]

\* node.nexts_mut()[level] = forwards[level]; forwards[level] = node.into()
Splice(st, forwards, level, node) ==
    LET old == Forwards(st.heap, st.nodes, forwards)[level + 1]
        s1  == [st EXCEPT !.heap[node].nexts[level + 1] = old]
    IN  SetForward(s1, forwards, level, node)

RECURSIVE insert_impl(_, _, _, _, _, _)
insert_impl(st, forwards, level, key, value, g) ==
    LET adv == insert_advance(st.heap, st.nodes, forwards, level, key, Fuel) IN
    IF adv.kind # "break"
    THEN [st |-> st, kind |-> IF adv.kind = "dup" THEN "Err" ELSE adv.kind,
          node |-> Null, rkey |-> key, rval |-> value, draws |-> 0]
    ELSE LET r == IF level = 0
                  THEN alloc(st, key, value, g)
                  ELSE insert_impl(st, adv.forwards, level - 1, key, value, g)
         IN  IF r.kind # "Ok" THEN r
             ELSE IF level >= NodeLevel(r.st.heap, r.node) THEN r
             ELSE [r EXCEPT !.st = Splice(r.st, adv.forwards, level, r.node)]

\* The Index grown by one entry at most.
GrowIndex_OneLevel(idx, lv, node) ==
    IF lv > Len(idx) THEN Append(idx, node) ELSE idx

\* The Index grown by one entry more than the new node has slots.
GrowIndex_OneTooMany(idx, lv, node) ==
    IF lv >= Len(idx) THEN idx \o [i \in 1..(lv - Len(idx) + 1) |-> node] ELSE idx

\* self.nodes.extend(repeat(inserted.into()).take(d))
GrowIndex(idx, lv, node) ==
    IF lv >= Len(idx) THEN idx \o [i \in 1..(lv - Len(idx)) |-> node] ELSE idx

insert(st, key, value, g) ==
    LET len == Len(st.nodes)
        r   == insert_impl(st, IndexHolder, len - 1, key, value, g)
    IN  IF r.kind # "Ok" THEN r
        ELSE [r EXCEPT !.st.nodes =
                 GrowIndex(r.st.nodes, NodeLevel(r.st.heap, r.node), r.node)]

----------------------------------------------------------------------------
\* lib.rs: search

\* forwards.get(level).and_then(|e| e.take())
GetForward(h, idx, holder, level) ==
    LET f == Forwards(h, idx, holder) IN
    IF level + 1 \in DOMAIN f THEN f[level + 1] ELSE Null

RECURSIVE search_advance(_, _, _, _, _, _)
search_advance(h, idx, forwards, level, key, fuel) ==
    IF fuel = 0 THEN forwards
    ELSE LET next == GetForward(h, idx, forwards, level) IN
         IF next = Null THEN forwards
         ELSE IF h[next].key >= key THEN forwards
         ELSE search_advance(h, idx, next, level, key, fuel - 1)

\* for level in (0..forwards.len()).rev()
RECURSIVE search_levels(_, _, _, _, _)
search_levels(h, idx, forwards, level, key) ==
    IF level < 0 THEN forwards
    ELSE search_levels(h, idx, search_advance(h, idx, forwards, level, key, Fuel),
                       level - 1, key)

\* The inner loop of search reaches a `break` (within as many steps as blocks).
RECURSIVE search_advance_ends(_, _, _, _, _, _)
search_advance_ends(h, idx, forwards, level, key, fuel) ==
    IF fuel = 0 THEN FALSE
    ELSE LET next == GetForward(h, idx, forwards, level) IN
         IF next = Null THEN TRUE
         ELSE IF h[next].key >= key THEN TRUE
         ELSE search_advance_ends(h, idx, next, level, key, fuel - 1)

\* The inner loop of search reaches a `break` at every level from `level` down.
RECURSIVE search_ends(_, _, _, _, _)
search_ends(h, idx, forwards, level, key) ==
    IF level < 0 THEN TRUE
    ELSE /\ search_advance_ends(h, idx, forwards, level, key, Fuel)
         /\ search_ends(h, idx, search_advance(h, idx, forwards, level, key, Fuel),
                        level - 1, key)

search(h, idx, key) ==
    LET f    == search_levels(h, idx, IndexHolder, Len(idx) - 1, key)
        node == GetForward(h, idx, f, 0)
    IN  IF node = Null THEN NoneV
        ELSE IF h[node].key = key THEN h[node].value ELSE NoneV

----------------------------------------------------------------------------
\* lib.rs: remove

RECURSIVE remove_advance(_, _, _, _, _, _)
remove_advance(h, idx, forwards, level, key, fuel) ==
    IF fuel = 0 THEN [kind |-> "hang", forwards |-> forwards]
    ELSE IF ~(level < Len(Forwards(h, idx, forwards)))
    THEN [kind |-> "panic", forwards |-> forwards]
    ELSE LET next == Forwards(h, idx, forwards)[level + 1] IN
         IF next = Null THEN [kind |-> "break", forwards |-> forwards]
         ELSE IF h[next].key >= key THEN [kind |-> "break", forwards |-> forwards]
         ELSE remove_advance(h, idx, next, level, key, fuel - 1)

\* remove_impl at level 0: the node after the predecessor is taken as it is.
take_victim(st, forwards, key) ==
    LET node == Forwards(st.heap, st.nodes, forwards)[1] IN
    IF node = Null
    THEN [st |-> st, kind |-> "Err", node |-> Null]
    ELSE [st |-> [st EXCEPT !.count = st.count - 1], kind |-> "Ok", node |-> node]

\* The unlink storing null in the predecessor instead of the victim's forward.
Unlink_DropsTail(st, forwards, level, removed) ==
    LET s1 == SetForward(st, forwards, level, MaybeNull)
    IN  [s1 EXCEPT !.heap[removed].nexts[level + 1] = MaybeNull]

\* The unlink done at level 0 only.
Unlink_LevelZeroOnly(st, forwards, level, removed) ==
    IF level > 0 THEN st
    ELSE LET next == st.heap[removed].nexts[level + 1]
             s1   == SetForward(st, forwards, level, next)
         IN  [s1 EXCEPT !.heap[removed].nexts[level + 1] = MaybeNull]

\* The unlink with `*next = MaybeNode::null()` left out.
Unlink_KeepsVictimLink(st, forwards, level, removed) ==
    SetForward(st, forwards, level, st.heap[removed].nexts[level + 1])

\* forwards[level] = *next; *next = MaybeNode::null()
Unlink(st, forwards, level, removed) ==
    LET next == st.heap[removed].nexts[level + 1]
        s1   == SetForward(st, forwards, level, next)
    IN  [s1 EXCEPT !.heap[removed].nexts[level + 1] = MaybeNull]

RECURSIVE remove_impl(_, _, _, _)
remove_impl(st, forwards, level, key) ==
    LET adv == remove_advance(st.heap, st.nodes, forwards, level, key, Fuel) IN
    IF adv.kind # "break"
    THEN [st |-> st, kind |-> adv.kind, node |-> Null]
    ELSE LET r == IF level = 0
                  THEN take_victim(st, adv.forwards, key)
                  ELSE remove_impl(st, adv.forwards, level - 1, key)
         IN  IF r.kind # "Ok" THEN r
             ELSE IF level >= NodeLevel(r.st.heap, r.node) THEN r
             ELSE [r EXCEPT !.st = Unlink(r.st, adv.forwards, level, r.node)]

\* The forward arrays the descent of remove_impl stops at, one per level from 0
\* to `level`: entry L + 1 is the `forwards` of the call at level L after its loop.
RECURSIVE remove_preds(_, _, _, _, _)
remove_preds(h, idx, forwards, level, key) ==
    LET adv == remove_advance(h, idx, forwards, level, key, Fuel) IN
    IF level = 0 THEN <<adv.forwards>>
    ELSE Append(remove_preds(h, idx, adv.forwards, level - 1, key), adv.forwards)

\* The removed pair read out of the node without deallocating its block.
dispose_removed_NoDealloc(r) ==
    [st |-> r.st, kind |-> "Ok", node |-> r.node,
     rkey |-> r.st.heap[r.node].key, rval |-> r.st.heap[r.node].value,
     dfree |-> FALSE]

\* Ok(removed.dispose())
dispose_removed(r) ==
    LET d == Dispose(r.st.heap, r.node) IN
    [st |-> [r.st EXCEPT !.heap = d.heap], kind |-> "Ok", node |-> r.node,
     rkey |-> d.key, rval |-> d.value, dfree |-> d.dfree]

remove(st, key) ==
    LET r == remove_impl(st, IndexHolder, Len(st.nodes) - 1, key) IN
    IF r.kind # "Ok"
    THEN [st |-> r.st, kind |-> r.kind, node |-> Null, rkey |-> 0, rval |-> 0,
          dfree |-> FALSE]
    ELSE dispose_removed(r)

----------------------------------------------------------------------------
\* iter.rs: Iter, and lib.rs: Drop

\* Iter::next repeated until None: the pairs yielded, from link `node` on.
RECURSIVE iter_collect(_, _, _)
iter_collect(h, node, fuel) ==
    IF node = Null \/ fuel = 0 THEN <<>>
    ELSE <<<<h[node].key, h[node].value>>>> \o iter_collect(h, h[node].nexts[1], fuel - 1)

\* Whether the traversal from `node` reaches the end of the chain.
RECURSIVE iter_ends(_, _, _)
iter_ends(h, node, fuel) ==
    IF node = Null THEN TRUE
    ELSE IF fuel = 0 THEN FALSE
    ELSE iter_ends(h, h[node].nexts[1], fuel - 1)

\* Drop for SkipList: take nodes[0], copy its nexts into nodes, dispose it.
\* Disposing a block that is not allocated is a double free: the loop is cut there.
RECURSIVE drop_loop(_, _, _, _)
drop_loop(h, idx, df, fuel) ==
    LET next == idx[1] IN
    IF next = Null THEN [heap |-> h, nodes |-> idx, dfree |-> df, kind |-> "Ok"]
    ELSE IF fuel = 0 THEN [heap |-> h, nodes |-> idx, dfree |-> df, kind |-> "hang"]
    ELSE IF ~h[next].live THEN [heap |-> h, nodes |-> idx, dfree |-> TRUE, kind |-> "Ok"]
    ELSE LET d == Dispose(h, next) IN
         drop_loop(d.heap, h[next].nexts, df \/ d.dfree, fuel - 1)

----------------------------------------------------------------------------
\* iter.rs: IntoIter

Links == {Null} \cup Addr

\* IntoIter::new: drop_in_place(&mut me.nodes) releases the Index storage, then
\* me.nodes[0] is read from the released storage.  The value read is whatever the
\* storage holds by then: the old head link, or any other link-sized value.
into_iter_head(idx) == {idx[1]} \cup Links

\* The statements of IntoIter::new that touch the Index, in program order.
IntoIterNewBody ==
    <<"ManuallyDrop::new(list)", "drop_in_place(&mut me.nodes)",
      "drop_in_place(&mut me.gen)", "me.nodes[0]">>

\* The body run from statement i on: drop_in_place(&mut me.nodes) releases the
\* Index storage, me.nodes[0] reads an entry of it.  The result is "Ok", or
\* "use_after_free" when the entry is read from released storage.
RECURSIVE into_iter_new_run(_, _, _, _)
into_iter_new_run(body, i, index_live, kind) ==
    IF i > Len(body) THEN kind
    ELSE IF body[i] = "drop_in_place(&mut me.nodes)"
    THEN into_iter_new_run(body, i + 1, FALSE, kind)
    ELSE IF body[i] = "me.nodes[0]"
    THEN into_iter_new_run(body, i + 1, index_live,
                           IF index_live THEN kind ELSE "use_after_free")
    ELSE into_iter_new_run(body, i + 1, index_live, kind)

into_iter_new_kind == into_iter_new_run(IntoIterNewBody, 1, TRUE, "Ok")

\* IntoIter::next
into_iter_next(h, node) ==
    IF node = Null
    THEN [heap |-> h, node |-> Null, kind |-> "None", rkey |-> 0, rval |-> 0,
          dfree |-> FALSE]
    ELSE IF ~h[node].live
    THEN [heap |-> h, node |-> node, kind |-> "crash", rkey |-> 0, rval |-> 0,
          dfree |-> FALSE]
    ELSE LET d == Dispose(h, node) IN
         [heap |-> d.heap, node |-> h[node].nexts[1], kind |-> "Some",
          rkey |-> d.key, rval |-> d.value, dfree |-> d.dfree]

----------------------------------------------------------------------------
\* The reference ordered map the structure is compared with.

ref_insert(m, k, v) ==
    IF m[k] # NoneV
    THEN [map |-> m, kind |-> "Err", rkey |-> k, rval |-> v]
    ELSE [map |-> [m EXCEPT ![k] = v], kind |-> "Ok", rkey |-> k, rval |-> v]

ref_remove(m, k) ==
    IF m[k] = NoneV
    THEN [map |-> m, kind |-> "Err", rkey |-> 0, rval |-> 0]
    ELSE [map |-> [m EXCEPT ![k] = NoneV], kind |-> "Ok", rkey |-> k, rval |-> m[k]]

ref_search(m, k) == m[k]

\* The pairs the structure holds, as iter() yields them, as a map.
Content(h, idx) ==
    LET ps == iter_collect(h, idx[1], Fuel) IN
    [k \in AllKeys |-> IF \E i \in DOMAIN ps : ps[i][1] = k
                    THEN ps[CHOOSE i \in DOMAIN ps : ps[i][1] = k][2]
                    ELSE NoneV]

----------------------------------------------------------------------------
\* The state machine.

State == [heap |-> heap, nodes |-> nodes, count |-> count]

OpRec(op, key, val, kind, rkey, rval, draws, out, rk) ==
    [op |-> op, key |-> key, val |-> val, kind |-> kind, rkey |-> rkey,
     rval |-> rval, draws |-> draws, out |-> out, len0 |-> Len(nodes),
     vlevel |-> LET vs == {a \in Addr : heap[a].live /\ heap[a].key = rkey}
                IN  IF op = "remove" /\ kind = "Ok" /\ vs # {}
                    THEN NodeLevel(heap, CHOOSE a \in vs : TRUE) ELSE 0,
     refkind |-> rk.kind,
     refrkey |-> rk.rkey, refrval |-> rk.rval]

NoRef == [kind |-> "-", rkey |-> 0, rval |-> 0]

\* SkipList::new
Init ==
    /\ heap = [a \in Addr |-> FreeCell]
    /\ nodes = <<MaybeNull>>
    /\ count = 0
    /\ phase = "live"
    /\ into_node = Null
    /\ head_read = "none"
    /\ dfree = FALSE
    /\ lastOp = OpRec("new", 0, 0, "Ok", 0, 0, 0, <<>>, NoRef)
    /\ ref = [k \in AllKeys |-> NoneV]
    /\ lastIns = [k \in AllKeys |-> NoneV]
    /\ net = 0

PhaseAfter(kind) == IF kind \in {"Ok", "Err"} THEN "live" ELSE kind

\* list.insert(k, v), the level source producing the outcomes g
Insert(k, v, g) ==
    /\ phase = "live"
    /\ \E r \in {insert(State, k, v, g)}, rk \in {ref_insert(Content(heap, nodes), k, v)} :
           /\ heap' = r.st.heap
           /\ nodes' = r.st.nodes
           /\ count' = r.st.count
           /\ phase' = PhaseAfter(r.kind)
           /\ lastOp' = OpRec("insert", k, v, r.kind, r.rkey, r.rval, r.draws, <<>>, rk)
           /\ ref' = rk.map
           /\ lastIns' = IF r.kind = "Ok" THEN [lastIns EXCEPT ![k] = v] ELSE lastIns
           /\ net' = IF r.kind = "Ok" THEN net + 1 ELSE net
    /\ UNCHANGED <<into_node, head_read, dfree>>

\* list.remove(&k)
Remove(k) ==
    /\ phase = "live"
    /\ \E r \in {remove(State, k)}, rk \in {ref_remove(Content(heap, nodes), k)} :
           /\ heap' = r.st.heap
           /\ nodes' = r.st.nodes
           /\ count' = r.st.count
           /\ phase' = PhaseAfter(r.kind)
           /\ dfree' = (dfree \/ r.dfree)
           /\ lastOp' = OpRec("remove", k, 0, r.kind, r.rkey, r.rval, 0, <<>>, rk)
           /\ ref' = rk.map
           /\ lastIns' = IF r.kind = "Ok" THEN [lastIns EXCEPT ![r.rkey] = NoneV]
                                         ELSE lastIns
           /\ net' = IF r.kind = "Ok" THEN net - 1 ELSE net
    /\ UNCHANGED <<into_node, head_read>>

\* list.search(&k)
Search(k) ==
    /\ phase = "live"
    /\ \E v \in {search(heap, nodes, k)},
          e \in {search_ends(heap, nodes, IndexHolder, Len(nodes) - 1, k)} :
       /\ lastOp' = OpRec("search", k, 0,
                       IF ~e THEN "hang" ELSE IF v = NoneV THEN "None" ELSE "Some",
                       IF v = NoneV THEN 0 ELSE k, v, 0, <<>>,
                       [kind |-> IF ref_search(ref, k) = NoneV THEN "None" ELSE "Some",
                        rkey |-> IF ref_search(ref, k) = NoneV THEN 0 ELSE k,
                        rval |-> ref_search(ref, k)])
       /\ phase' = IF e THEN phase ELSE "hang"
    /\ UNCHANGED <<heap, nodes, count, into_node, head_read, dfree, ref,
                   lastIns, net>>

\* list.iter().collect()
IterAll ==
    /\ phase = "live"
    /\ lastOp' = OpRec("iter", 0, 0,
                       IF iter_ends(heap, nodes[1], Fuel) THEN "Ok" ELSE "hang",
                       0, 0, 0, iter_collect(heap, nodes[1], Fuel), NoRef)
    /\ phase' = IF iter_ends(heap, nodes[1], Fuel) THEN phase ELSE "hang"
    /\ UNCHANGED <<heap, nodes, count, into_node, head_read, dfree, ref,
                   lastIns, net>>

\* drop(list)
Drop ==
    /\ phase = "live"
    /\ \E r \in {drop_loop(heap, nodes, dfree, Fuel)} :
       /\ heap' = r.heap
       /\ nodes' = r.nodes
       /\ dfree' = r.dfree
       /\ phase' = IF r.kind = "Ok" THEN "dropped" ELSE r.kind
       /\ lastOp' = OpRec("drop", 0, 0, r.kind, 0, 0, 0, <<>>, NoRef)
    /\ UNCHANGED <<count, into_node, head_read, ref, lastIns, net>>

\* list.into_iter()
IntoIterNew ==
    /\ phase = "live"
    /\ \E kd \in {into_iter_new_kind} :
          /\ \E head \in IF kd = "Ok" THEN {nodes[1]} ELSE into_iter_head(nodes) :
                /\ into_node' = head
                /\ head_read' = IF head = nodes[1] THEN "old" ELSE "garbage"
          /\ lastOp' = OpRec("into_iter", 0, 0, kd, 0, 0, 0, <<>>, NoRef)
    /\ phase' = "iter"
    /\ UNCHANGED <<heap, nodes, count, dfree, ref, lastIns, net>>

\* it.next() on the consuming iterator
IntoIterNext ==
    /\ phase = "iter"
    /\ \E r \in {into_iter_next(heap, into_node)} :
       /\ heap' = r.heap
       /\ into_node' = r.node
       /\ dfree' = (dfree \/ r.dfree)
       /\ phase' = IF r.kind = "crash" THEN "crash" ELSE "iter"
       /\ lastOp' = OpRec("into_next", 0, 0, r.kind, r.rkey, r.rval, 0, <<>>, NoRef)
    /\ UNCHANGED <<nodes, count, head_read, ref, lastIns, net>>

\* drop(it): IntoIter has no Drop impl, so only the link itself goes away.
IntoIterDrop ==
    /\ phase = "iter"
    /\ phase' = "gone"
    /\ lastOp' = OpRec("into_drop", 0, 0, "Ok", 0, 0, 0, <<>>, NoRef)
    /\ UNCHANGED <<heap, nodes, count, into_node, head_read, dfree, ref, lastIns, net>>

Next ==
    \/ \E k \in Keys, v \in Vals, g \in 0..MaxTrue(MaxKey) : Insert(k, v, g)
    \/ \E k \in Keys : Remove(k)
    \/ \E k \in Keys : Search(k)
    \/ IterAll
    \/ Drop
    \/ IntoIterNew
    \/ IntoIterNext
    \/ IntoIterDrop

Spec == Init /\ [][Next]_vars

\* Inserts and removes alone, one value, over the larger key set.
NextTall ==
    \/ \E k \in TallKeys, g \in 0..MaxTrue(TallKey) : Insert(k, 1, g)
    \/ \E k \in TallKeys : Remove(k)

SpecTall == Init /\ [][NextTall]_vars

----------------------------------------------------------------------------
\* Vocabulary of the properties.

\* Whether key k is stored (met on the level-0 chain).
Has(h, idx, k) == Content(h, idx)[k] # NoneV

\* The step just taken was the call `op` on a live structure.
Called(op) == phase = "live" /\ lastOp'.op = op

\* The addresses met along level L from `link`; -1 where the chain is broken (a
\* block that is not allocated or has no slot L, or more steps than blocks).
RECURSIVE level_chain(_, _, _, _)
level_chain(h, link, L, fuel) ==
    IF link = Null THEN <<>>
    ELSE IF fuel = 0 \/ ~h[link].live \/ L + 1 > h[link].level THEN <<-1>>
    ELSE <<link>> \o level_chain(h, h[link].nexts[L + 1], L, fuel - 1)

\* The step left every link, node and the count as they were.
StructureUnchanged == heap' = heap /\ nodes' = nodes /\ count' = count

----------------------------------------------------------------------------
\* C1: remove(k) of a key k that is not stored returns Err(()) and leaves the
\* structure unchanged (level-0 pairs, count, links at every level), also when
\* keys greater than k are stored.
C1_RemoveAbsentIsErr ==
    [][(Called("remove") /\ ~Has(heap, nodes, lastOp'.key))
          => (lastOp'.kind = "Err" /\ StructureUnchanged)]_vars

----------------------------------------------------------------------------
----------------------------------------------------------------------------
\* C3: insert(k, v2) of a key k stored with v1 returns Err((k, v2)) with the key
\* and value passed in, and changes nothing: search(k) still yields v1, count, the
\* Index length and every link are as before, at whatever level the stored node
\* is met.
C3_InsertDuplicateIsErr ==
    [][(Called("insert") /\ Has(heap, nodes, lastOp'.key))
          => /\ lastOp'.kind = "Err"
             /\ lastOp'.rkey = lastOp'.key
             /\ lastOp'.rval = lastOp'.val
             /\ search(heap', nodes', lastOp'.key) = Content(heap, nodes)[lastOp'.key]
             /\ Len(nodes') = Len(nodes)
             /\ StructureUnchanged]_vars

\* An insert was rejected with a value other than the stored one, the stored node
\* being of level 2 (met above level 0) and other keys stored on either side.
C3_Witness ==
    /\ phase = "live"
    /\ lastOp.op = "insert" /\ lastOp.kind = "Err"
    /\ Has(heap, nodes, lastOp.key)
    /\ Content(heap, nodes)[lastOp.key] # lastOp.val
    /\ \E a \in Addr : heap[a].live /\ heap[a].key = lastOp.key /\ heap[a].level >= 2
    /\ count >= 3

----------------------------------------------------------------------------
\* C4: insert(k, v) of a key k that is not stored returns Ok(()) whatever the
\* level source yields; then search(k) is Some(v) and search(j) answers as before
\* for every other key j.
C4_InsertThenSearch ==
    [][(Called("insert") /\ ~Has(heap, nodes, lastOp'.key))
          => /\ lastOp'.kind = "Ok"
             /\ search(heap', nodes', lastOp'.key) = lastOp'.val
             /\ \A j \in AllKeys \ {lastOp'.key} :
                    search(heap', nodes', j) = search(heap, nodes, j)]_vars

\* An insert has succeeded after drawing a true outcome, between two stored keys.
C4_Witness ==
    /\ phase = "live"
    /\ lastOp.op = "insert" /\ lastOp.kind = "Ok" /\ lastOp.draws >= 1
    /\ \E i, j \in AllKeys : i < lastOp.key /\ lastOp.key < j
                             /\ Has(heap, nodes, i) /\ Has(heap, nodes, j)
    /\ \E a \in Addr : heap[a].live /\ heap[a].key = lastOp.key /\ heap[a].level >= 2

----------------------------------------------------------------------------
\* C5: a full traversal with iter(), after any inserts and removes, yields
\* strictly increasing keys, visits every stored node exactly once, and yields
\* exactly the keys that are present (inserted successfully, not removed since).
C5_IterYieldsPresentKeys ==
    (phase = "live" /\ lastOp.op = "iter")
       => LET out == lastOp.out IN
          /\ lastOp.kind = "Ok"
          /\ \A i \in 1..(Len(out) - 1) : out[i][1] < out[i + 1][1]
          /\ Len(out) = Cardinality({a \in Addr : heap[a].live})
          /\ {out[i][1] : i \in DOMAIN out} = {k \in AllKeys : ref[k] # NoneV}

----------------------------------------------------------------------------
\* C6: on every insert, search and remove call the skip list returns what a
\* reference ordered map returns, and holds the same pairs after the call.
C6_SameAsReferenceMap ==
    (phase = "live" /\ lastOp.op \in {"insert", "search", "remove"})
       => /\ lastOp.kind = lastOp.refkind
          /\ lastOp.rkey = lastOp.refrkey
          /\ lastOp.rval = lastOp.refrval
          /\ Content(heap, nodes) = ref

----------------------------------------------------------------------------
\* C7: count() is the number of inserts that returned Ok minus the number of
\* removes that returned Ok; no other operation changes it, and it never goes
\* below 0.
C7_CountIsNet ==
    /\ [](count = net /\ count >= 0)
    /\ [][count' # count
             => (lastOp'.op \in {"insert", "remove"} /\ lastOp'.kind = "Ok")]_vars

\* A remove has returned Ok and left at least one element, after which count and
\* the net number of successes agree.
C7_Witness ==
    /\ phase = "live"
    /\ lastOp.op = "remove" /\ lastOp.kind = "Ok"
    /\ count >= 1 /\ count = net

----------------------------------------------------------------------------
\* C8: once into_iter() has taken the structure, every node it held has been
\* disposed exactly once by the time the consuming iterator is gone, whether the
\* iterator was exhausted or dropped early.  Stated for the hand-overs in which
\* the head link was read as the structure left it.
C8_IntoIterDisposesAll ==
    (phase = "gone" /\ head_read = "old")
       => (~dfree /\ \A a \in Addr : ~heap[a].live)

----------------------------------------------------------------------------
\* C9: dropping the structure after any inserts, searches and removes (without
\* into_iter) terminates and disposes every node of the level-0 chain exactly
\* once; with remove disposing its victim, every node ever allocated has then
\* been disposed exactly once.
Level0Cells ==
    LET c == level_chain(heap, nodes[1], 0, Fuel) IN {c[i] : i \in DOMAIN c}

C9_TeardownDisposesAll ==
    /\ phase # "hang"
    /\ phase \in {"live", "dropped"} => ~dfree
    /\ phase = "live" => (Level0Cells = {a \in Addr : heap[a].live}
                          /\ Cardinality(Level0Cells) = Len(iter_collect(heap, nodes[1], Fuel)))
    /\ phase = "dropped" => (lastOp.kind = "Ok" /\ \A a \in Addr : ~heap[a].live)

\* The structure was dropped while it held three elements.
C9_Witness ==
    phase = "dropped" /\ lastOp.op = "drop" /\ count >= 3

----------------------------------------------------------------------------
\* C10: at every level L below the Index length, following the Index entry at L
\* and then each node's forward slot L visits exactly the stored nodes of level
\* greater than L, each once, in strictly ascending key order; inserts (also
\* those that grow the Index by one or several levels) and removes preserve it.

C10_LevelChains ==
    phase = "live"
       => \A L \in 0..(Len(nodes) - 1) :
             LET c == level_chain(heap, nodes[L + 1], L, Fuel) IN
             /\ \A i \in DOMAIN c : c[i] # -1
             /\ \A i \in 1..(Len(c) - 1) : heap[c[i]].key < heap[c[i + 1]].key
             /\ {c[i] : i \in DOMAIN c}
                   = {a \in Addr : heap[a].live /\ heap[a].level > L}

\* An insert has just grown the Index from one level to three.
C10_Witness ==
    /\ phase = "live"
    /\ lastOp.op = "insert" /\ lastOp.kind = "Ok"
    /\ lastOp.len0 = 1 /\ Len(nodes) = 3

----------------------------------------------------------------------------
\* C11: a successful insert into a structure of count c gives the new node the
\* level 1 + (the number of consecutive true outcomes drawn), stopped at the
\* first false or at the cap floor(log2(c)) + 1 (1 when c = 0), c being the count
\* before the insert: the level is in 1..cap, is the cap under a source that
\* stays true and 1 under a source that starts false.

\* floor(log2(c)) + 1 for c >= 1, and 1 for c = 0.
LevelCap(c) ==
    IF c = 0 THEN 1
    ELSE 1 + CHOOSE e \in 0..c : 2 ^ e <= c /\ c < 2 ^ (e + 1)

Min(a, b) == IF a <= b THEN a ELSE b

\* The stored node of key k.
NodeOf(h, k) == CHOOSE a \in Addr : h[a].live /\ h[a].key = k

C11_LevelIsCappedRun ==
    [][\A g \in 0..MaxTrue(TallKey) :
          (/\ lastOp'.op = "insert" /\ lastOp'.kind = "Ok"
           /\ Insert(lastOp'.key, 1, g))
             => LET lv == NodeLevel(heap', NodeOf(heap', lastOp'.key)) IN
                /\ lv = Min(1 + g, LevelCap(count))
                /\ lv \in 1..LevelCap(count)
                /\ (g >= LevelCap(count) - 1 => lv = LevelCap(count))
                /\ (g = 0 => lv = 1)]_vars

\* An insert into four elements has drawn two true outcomes and made a node of
\* level 3, the cap for count 4.
C11_Witness ==
    /\ phase = "live"
    /\ lastOp.op = "insert" /\ lastOp.kind = "Ok" /\ lastOp.draws = 2
    /\ count = 5
    /\ NodeLevel(heap, NodeOf(heap, lastOp.key)) = 3

----------------------------------------------------------------------------
\* C12: the Index has length 1 in a new structure; no insert and no remove makes
\* it shorter; it changes only in a successful insert whose new node's level
\* exceeds the current length, and then equals that level; so every stored
\* node's level is at most the Index length.
C12_IndexLength ==
    /\ Len(nodes) = 1
    /\ [](phase = "live" =>
            \A a \in Addr : heap[a].live => NodeLevel(heap, a) <= Len(nodes))
    /\ [][phase' = "live" =>
            LET grows == /\ lastOp'.op = "insert"
                         /\ lastOp'.kind = "Ok"
                         /\ NodeLevel(heap', NodeOf(heap', lastOp'.key)) > Len(nodes)
            IN  /\ Len(nodes') >= Len(nodes)
                /\ (Len(nodes') # Len(nodes)) => grows
                /\ grows => Len(nodes') = NodeLevel(heap', NodeOf(heap', lastOp'.key))]_vars

\* A remove has taken the only node of the two top levels and the Index keeps its
\* three entries.
C12_Witness ==
    /\ phase = "live"
    /\ lastOp.op = "remove" /\ lastOp.kind = "Ok"
    /\ Len(nodes) = 3 /\ lastOp.len0 = 3
    /\ nodes[2] = Null /\ nodes[3] = Null
    /\ count >= 1

----------------------------------------------------------------------------
\* C13: the assertions `level < forwards.len()` of the insert and remove descents
\* never fail: no operation ends in a panic, and in every state every link held
\* at level L, by the Index or by a node, leads to a node of more than L slots.

\* The forward arrays: the Index and the stored nodes.
Holders == {IndexHolder} \cup {a \in Addr : heap[a].live}

C13_AssertionsHold ==
    /\ phase # "panic"
    /\ lastOp.kind # "panic"
    /\ phase = "live" =>
          \A hd \in Holders :
             \A L \in 0..(Len(Forwards(heap, nodes, hd)) - 1) :
                LET next == Forwards(heap, nodes, hd)[L + 1] IN
                next # Null => /\ heap[next].live
                               /\ L < Len(Forwards(heap, nodes, next))

\* An insert has descended from level 1 or above through a node of smaller key
\* that the Index holds at level 1.
C13_Witness ==
    /\ phase = "live"
    /\ lastOp.op = "insert" /\ lastOp.kind = "Ok"
    /\ lastOp.len0 >= 2
    /\ nodes[2] # Null
    /\ heap[nodes[2]].key < lastOp.key
    /\ NodeLevel(heap, NodeOf(heap, lastOp.key)) >= 2

----------------------------------------------------------------------------
\* C14: in every remove that finds a victim, at every level L below the victim's
\* level and the Index length, the forward array the descent stopped at holds the
\* victim in slot L; remove_impl stores the victim's forward at L in that slot and
\* null in the victim's slot L, and changes no other slot of any node or of the
\* Index; the victim's block is then released and nothing else is touched.

\* Slot i of the forward array `hd` after the unlinking of victim v, the descent
\* having stopped at preds[L + 1] at each level L < top.
SlotAfter(hd, i, preds, v, top) ==
    IF i <= top /\ preds[i] = hd THEN heap[v].nexts[i]
    ELSE Forwards(heap, nodes, hd)[i]

C14_UnlinkFrame ==
    [][(/\ lastOp'.op = "remove" /\ lastOp'.kind = "Ok"
        /\ Remove(lastOp'.key))
          => \E preds \in {remove_preds(heap, nodes, IndexHolder, Len(nodes) - 1,
                                        lastOp'.key)},
                r \in {remove_impl(State, IndexHolder, Len(nodes) - 1, lastOp'.key)} :
                LET v   == Forwards(heap, nodes, preds[1])[1]
                    top == Min(NodeLevel(heap, v), Len(nodes))
                IN  /\ v # Null /\ r.node = v
                    /\ \A L \in 0..(top - 1) :
                          Forwards(heap, nodes, preds[L + 1])[L + 1] = v
                    /\ r.st.nodes = [i \in 1..Len(nodes) |->
                                        SlotAfter(IndexHolder, i, preds, v, top)]
                    /\ \A a \in Addr \ {v} :
                          r.st.heap[a] =
                             IF heap[a].live
                             THEN [heap[a] EXCEPT !.nexts =
                                     [i \in 1..Len(heap[a].nexts) |->
                                         SlotAfter(a, i, preds, v, top)]]
                             ELSE heap[a]
                    /\ r.st.heap[v] =
                          [heap[v] EXCEPT !.nexts =
                             [i \in 1..Len(heap[v].nexts) |->
                                 IF i <= top THEN Null ELSE heap[v].nexts[i]]]
                    /\ nodes' = r.st.nodes
                    /\ \A a \in Addr \ {v} : heap'[a] = r.st.heap[a]
                    /\ ~heap'[v].live]_vars

\* A remove has unlinked a victim of level 2 or more from between two nodes: a
\* stored node of smaller key at level 1, and a stored node of greater key.
C14_Witness ==
    /\ phase = "live"
    /\ lastOp.op = "remove" /\ lastOp.kind = "Ok"
    /\ lastOp.vlevel >= 2
    /\ \E a, b \in Addr :
          /\ heap[a].live /\ heap[b].live
          /\ heap[a].key < lastOp.rkey /\ lastOp.rkey < heap[b].key
          /\ NodeLevel(heap, a) >= 2
          /\ heap[a].nexts[2] = b

----------------------------------------------------------------------------
\* C15: only a successful insert draws outcomes from the level source, and it
\* draws at most cap - 1 of them, cap being the level cap of the count before the
\* insert (none when that count is 0 or 1); a rejected insert, a remove, a search,
\* a traversal and a teardown draw none.
C15_DrawsOnlyInAlloc ==
    [][/\ lastOp'.draws > 0 => (lastOp'.op = "insert" /\ lastOp'.kind = "Ok")
       /\ (lastOp'.op = "insert" /\ lastOp'.kind = "Ok")
             => /\ lastOp'.draws <= LevelCap(count) - 1
                /\ count <= 1 => lastOp'.draws = 0]_vars

\* An insert into two elements has drawn one outcome, true, and stopped at the
\* cap 2 without drawing another.
C15_Witness ==
    /\ phase = "live"
    /\ lastOp.op = "insert" /\ lastOp.kind = "Ok" /\ lastOp.draws = 1
    /\ count = 3
    /\ NodeLevel(heap, NodeOf(heap, lastOp.key)) = 2

----------------------------------------------------------------------------
\* C16: every operation terminates: no descent of insert, search or remove, no
\* traversal and no teardown takes more forward steps than there are blocks; no
\* chain at any level of a live structure has a cycle; and under a level source
\* that stays true the level loop stops at the cap, having drawn only true
\* outcomes.
C16_Terminates ==
    /\ [](/\ phase # "hang"
          /\ lastOp.kind # "hang"
          /\ phase = "live" =>
                \A L \in 0..(Len(nodes) - 1) :
                   LET c == level_chain(heap, nodes[L + 1], L, Fuel) IN
                   /\ \A i \in DOMAIN c : c[i] # -1
                   /\ \A i, j \in DOMAIN c : c[i] = c[j] => i = j)
    /\ [][(/\ lastOp'.op = "insert" /\ lastOp'.kind = "Ok"
           /\ Insert(lastOp'.key, lastOp'.val, MaxTrue(MaxKey)))
                => /\ lastOp'.draws = NodeLevel(heap', NodeOf(heap', lastOp'.key)) - 1
                   /\ lastOp'.draws <= MaxTrue(MaxKey)]_vars

\* A traversal has ended after three pairs on a structure that has a node of
\* level 2 which is not the first one.
C16_Witness ==
    /\ phase = "live"
    /\ lastOp.op = "iter" /\ lastOp.kind = "Ok" /\ Len(lastOp.out) = 3
    /\ nodes[1] # Null
    /\ \E a \in Addr : heap[a].live /\ NodeLevel(heap, a) = 2 /\ nodes[1] # a

----------------------------------------------------------------------------
\* C17: when into_iter() takes the structure over, the level-0 head link is read
\* from the Index while the Index storage is still live: the hand-over never
\* reads an Index entry from released storage.
C17_HeadReadWhileIndexLive ==
    lastOp.op = "into_iter" => lastOp.kind # "use_after_free"

====
